---- MODULE Spec2Model ----
(***************************************************************************)
(* Verification model of the runtime substrate of hyperleveldb_windows:    *)
(*   - the concurrent Arena            (src/Test/Test.cpp, lines 62-269)   *)
(*   - the growable mapped file PosixMmapFile (src/unnamed/part_000)       *)
(* Every thread step is one atomic operation of the source (an atomic      *)
(* load, a compare-and-swap, a critical section under mtx_, a system       *)
(* call), so that every interleaving the code allows is explored.          *)
(***************************************************************************)
EXTENDS Integers, Sequences, FiniteSets, TLC

(***************************************************************************)
(* Bounds of the model                                                     *)
(***************************************************************************)
NArenaThreads == 2
MaxArenaCalls == 2
MaxBlocks == 6
MaxMapFailures == 1
MaxWildReturns == 1
MaxUsage == 65728

(***************************************************************************)
(* Program constants of the Arena                                          *)
(***************************************************************************)
BLOCK_SIZE == 65536
PageSize == 4096
align_ == 8
SizeofBlock == 48

\* Address space of the model: Block object number i, when its mapping
\* succeeds, is mapped at i * Region (Region exceeds every mapped size).
Region == 1048576
NULL == 0

\* Target of the indeterminate pointer NewBlock hands back when control
\* flows off its end: Block object number 1 stands for the Block-shaped
\* memory found at that address.
WildPtr == 1

ArenaThreads == 1..NArenaThreads

\* Sizes the callers request: an unaligned size below the alignment, the
\* largest size of the ordinary path (aligned), the smallest size of the
\* large path (unaligned; AllocateAligned pads it to 16392).
AllocSizes == {5, 16384, 16385}
AlignedSizes == {5, 16385}

\* Contents of the memory found behind the indeterminate pointer.
WildRems == {16384}
WildAddrs == {12}

VARIABLES
  blk,            \* Seq of Block objects ever constructed (index = address of the object)
  blocks_,        \* head of the normal list (index into blk, NULL = 0)
  large_,         \* head of the large list
  memory_usage_,  \* Arena::memory_usage_
  apc,            \* position of each Arena thread
  aloc,           \* locals of each Arena thread
  acalls,         \* number of calls issued so far (numbers the calls)
  rets,           \* history: the calls that returned, [p, n, al, b, k]
  aflags          \* history: [mapFailed, wildRet: counts; assertFailed]

avars == <<blk, blocks_, large_, memory_usage_, apc, aloc, acalls, rets, aflags>>

(***************************************************************************)
(* Arena: pure helpers                                                     *)
(***************************************************************************)
\* (x + (a - 1)) & ~(a - 1) for a power of two a
AlignUp(x, a) == ((x + (a - 1)) \div a) * a

\* Block::Block() followed by the stores of NewBlock; ok = the OS provided
\* the mapping (CreateFileMapping and MapViewOfFile both succeeded).  When the
\* OS fails, MapViewOfFile yields NULL and the stores run all the same.
NewBlockRec(id, bytes, ok) ==
  LET sz == AlignUp(bytes, PageSize)
      base == IF ok THEN id * Region ELSE NULL
  IN [next |-> NULL, rem |-> sz, next_lower |-> base, next_upper |-> base + sz,
      base |-> base, size |-> sz, mapped |-> ok, freed |-> FALSE, unmaps |-> 0]

\* What the caller of NewBlock receives.  NewBlock has no return statement
\* ("//return nb;"), so the value is indeterminate: the Block just built, or
\* some other address.
NewBlockRet(id) == {id, WildPtr}

WildRec(r, a) ==
  [next |-> NULL, rem |-> r, next_lower |-> a, next_upper |-> a,
   base |-> NULL, size |-> 0, mapped |-> FALSE, freed |-> FALSE, unmaps |-> 0]

\* increment_64_nobarrier(&memory_usage_, n).  Nothing in the Arena reads the
\* counter; in the runs with any number of indeterminate NewBlock results it
\* is followed up to MaxUsage only.
Incremented(n) ==
  IF aflags.wildCapped \/ memory_usage_ + n <= MaxUsage
    THEN memory_usage_ + n
    ELSE MaxUsage

ALocInit == [bytes |-> 0, b |-> NULL, rem |-> 0, nb |-> NULL, expected |-> 0,
             upper |-> FALSE, al |-> FALSE]

LargeThreshold == BLOCK_SIZE \div 4

\* Allocate line 153: bytes > BLOCK_SIZE >> 2
IsLarge(bytes) == bytes > LargeThreshold

(***************************************************************************)
(* Arena: initial state = state after Arena::Arena()                       *)
(***************************************************************************)
\* The Block left by k sequential calls Allocate(PreSize) on a fresh Block:
\* each lowers rem (Allocate line 161) and next_upper (AllocateFinalize).
PreSize == LargeThreshold
Prefilled(rec, k) ==
  [rec EXCEPT !.rem = @ - k * PreSize, !.next_upper = @ - k * PreSize]

PreRets(rec, k) ==
  {[p |-> rec.next_upper - i * PreSize, n |-> PreSize, al |-> FALSE, b |-> 2, k |-> 0 - i]
     : i \in 1..k}

\* The Arena is observed either right after its constructor or after the
\* constructing thread has made 4 calls Allocate(16384) that filled the first
\* Block (a state the actions below reach from the former).  The mapping of
\* the constructor succeeded; refused mappings are explored at the NewBlock
\* calls of Allocate and AllocateLarge.
ArenaInitOf(capped) ==
  /\ \E r \in WildRems, a \in WildAddrs, pre \in IF capped THEN {0, 4} ELSE {4} :
       /\ blocks_ \in NewBlockRet(2)
       /\ pre = 0 \/ blocks_ = 2
       /\ blk = <<WildRec(r, a), Prefilled(NewBlockRec(2, 65536, TRUE), pre)>>
       /\ rets = PreRets(NewBlockRec(2, 65536, TRUE), pre)
       /\ memory_usage_ = 2 * SizeofBlock + pre * PreSize
       /\ aflags = [mapFailed |-> 0, assertFailed |-> FALSE, destroyed |-> FALSE,
                    wildRet |-> IF blocks_ = WildPtr THEN 1 ELSE 0,
                    wildCapped |-> capped]
  /\ large_ = NULL
  /\ apc = [t \in ArenaThreads |-> "idle"]
  /\ aloc = [t \in ArenaThreads |-> ALocInit]
  /\ acalls = 0

\* The runs in which at most MaxWildReturns NewBlock calls hand back an
\* address other than their Block
ArenaInit == ArenaInitOf(TRUE)

\* The runs in which any number of NewBlock calls may do so
ArenaInitAnyReturn == ArenaInitOf(FALSE)

(***************************************************************************)
(* Arena: one action per atomic step of a calling thread                   *)
(***************************************************************************)
\* Allocate lines 152-157 with bytes = n > 0: choice of the path; on the
\* ordinary path the acquire load of blocks_.
Enter(t, n, al) ==
  IF IsLarge(n)
    THEN /\ apc' = [apc EXCEPT ![t] = "large_new"]
         /\ aloc' = [aloc EXCEPT ![t] = [ALocInit EXCEPT !.bytes = n, !.al = al]]
    ELSE /\ apc' = [apc EXCEPT ![t] = "load_rem"]
         /\ aloc' = [aloc EXCEPT ![t] = [ALocInit EXCEPT !.bytes = n, !.al = al, !.b = blocks_]]

\* A caller enters Allocate(n).
CallAllocate(t) ==
  /\ apc[t] = "idle"
  /\ ~aflags.destroyed
  /\ acalls < MaxArenaCalls
  /\ \E n \in AllocSizes : Enter(t, n, FALSE)
  /\ acalls' = acalls + 1
  /\ UNCHANGED <<blk, blocks_, large_, memory_usage_, rets, aflags>>

\* A caller enters AllocateAligned(n): line 179 pads n to the alignment,
\* line 180 calls Allocate.
CallAllocateAligned(t) ==
  /\ apc[t] = "idle"
  /\ ~aflags.destroyed
  /\ acalls < MaxArenaCalls
  /\ \E n \in AlignedSizes : Enter(t, AlignUp(n, align_), TRUE)
  /\ acalls' = acalls + 1
  /\ UNCHANGED <<blk, blocks_, large_, memory_usage_, rets, aflags>>

\* Allocate line 157 when the while (true) loop comes round again.
Reload(t) ==
  /\ apc[t] = "alloc"
  /\ aloc' = [aloc EXCEPT ![t].b = blocks_]
  /\ apc' = [apc EXCEPT ![t] = "load_rem"]
  /\ UNCHANGED <<blk, blocks_, large_, memory_usage_, acalls, rets, aflags>>

\* Allocate line 158: rem = load_32_acquire(&b->rem)
LoadRem(t) ==
  /\ apc[t] = "load_rem"
  /\ aloc' = [aloc EXCEPT ![t].rem = blk[aloc[t].b].rem]
  /\ apc' = [apc EXCEPT ![t] = "cas_rem"]
  /\ UNCHANGED <<blk, blocks_, large_, memory_usage_, acalls, rets, aflags>>

\* Allocate lines 160-166: one turn of the reservation loop.
CasRem(t) ==
  /\ apc[t] = "cas_rem"
  /\ LET l == aloc[t] IN
     IF l.rem >= l.bytes
       THEN IF blk[l.b].rem = l.rem
              THEN /\ blk' = [blk EXCEPT ![l.b].rem = l.rem - l.bytes]
                   /\ apc' = [apc EXCEPT ![t] = "fin_load"]
                   /\ UNCHANGED aloc
              ELSE /\ aloc' = [aloc EXCEPT ![t].rem = blk[l.b].rem]
                   /\ UNCHANGED <<blk, apc>>
       ELSE /\ apc' = [apc EXCEPT ![t] = "newblock"]
            /\ UNCHANGED <<blk, aloc>>
  /\ UNCHANGED <<blocks_, large_, memory_usage_, acalls, rets, aflags>>

\* NewBlock(bytes) as seen by its caller: a Block object is built and mapped
\* (or not, when the OS refuses), and the caller receives NewBlockRet.
\* A Block whose address reaches nobody is referenced by nothing afterwards;
\* once MaxBlocks objects are on record such a Block is no longer recorded.
DoNewBlock(t, bytes, nextpc) ==
  /\ \E ok \in BOOLEAN, r \in NewBlockRet(Len(blk) + 1) :
       /\ ok \/ aflags.mapFailed < MaxMapFailures
       /\ r # WildPtr \/ aflags.wildRet < MaxWildReturns \/ ~aflags.wildCapped
       /\ r = WildPtr \/ Len(blk) < MaxBlocks
       /\ blk' = IF Len(blk) < MaxBlocks
                   THEN Append(blk, NewBlockRec(Len(blk) + 1, bytes, ok))
                   ELSE blk
       /\ aloc' = [aloc EXCEPT ![t].nb = r]
       /\ aflags' = [aflags EXCEPT !.mapFailed = IF ok THEN @ ELSE @ + 1,
                                   !.wildRet = IF r = WildPtr /\ @ < MaxWildReturns
                                                 THEN @ + 1 ELSE @]
  /\ apc' = [apc EXCEPT ![t] = nextpc]

\* Allocate line 167
NewStdBlock(t) ==
  /\ apc[t] = "newblock"
  /\ DoNewBlock(t, BLOCK_SIZE, "link")
  /\ UNCHANGED <<blocks_, large_, memory_usage_, acalls, rets>>

\* Allocate line 168: store_ptr_release(&nb->next, b)
LinkStd(t) ==
  /\ apc[t] = "link"
  /\ blk' = [blk EXCEPT ![aloc[t].nb].next = aloc[t].b]
  /\ apc' = [apc EXCEPT ![t] = "cas_head"]
  /\ UNCHANGED <<blocks_, large_, memory_usage_, aloc, acalls, rets, aflags>>

\* ~Block lines 91-98 run k times on the object rec: a non-null base is
\* unmapped at each run.
DeleteBlock(rec, k) ==
  IF k = 0 THEN rec
  ELSE [rec EXCEPT !.freed = TRUE, !.mapped = FALSE,
                   !.unmaps = IF rec.base # NULL THEN @ + k ELSE @]

\* Allocate lines 169-174: CAS of the list head; the loser deletes its Block
\* (~Block unmaps a non-null base), the winner counts it.  Then loop.
CasHead(t) ==
  /\ apc[t] = "cas_head"
  /\ LET l == aloc[t] IN
     IF blocks_ = l.b
       THEN /\ blocks_' = l.nb
            /\ memory_usage_' = Incremented(SizeofBlock)
            /\ UNCHANGED blk
       ELSE /\ blk' = [blk EXCEPT ![l.nb] = DeleteBlock(@, 1)]
            /\ UNCHANGED <<blocks_, memory_usage_>>
  /\ apc' = [apc EXCEPT ![t] = "alloc"]
  /\ UNCHANGED <<large_, aloc, acalls, rets, aflags>>

\* AllocateLarge line 224
NewLargeBlock(t) ==
  /\ apc[t] = "large_new"
  /\ DoNewBlock(t, aloc[t].bytes, "large_load")
  /\ UNCHANGED <<blocks_, large_, memory_usage_, acalls, rets>>

\* AllocateLarge lines 225-227: b = large_; nb->next = b
LargeLoad(t) ==
  /\ apc[t] = "large_load"
  /\ aloc' = [aloc EXCEPT ![t].b = large_]
  /\ blk' = [blk EXCEPT ![aloc[t].nb].next = large_]
  /\ apc' = [apc EXCEPT ![t] = "large_cas"]
  /\ UNCHANGED <<blocks_, large_, memory_usage_, acalls, rets, aflags>>

\* AllocateLarge lines 228-233: one turn of the push loop; on success the
\* Block is counted and AllocateFinalize(nb, bytes) is entered.
LargeCas(t) ==
  /\ apc[t] = "large_cas"
  /\ LET l == aloc[t] IN
     IF large_ = l.b
       THEN /\ large_' = l.nb
            /\ memory_usage_' = Incremented(SizeofBlock)
            /\ aloc' = [aloc EXCEPT ![t].b = l.nb]
            /\ apc' = [apc EXCEPT ![t] = "fin_load"]
            /\ UNCHANGED blk
       ELSE /\ aloc' = [aloc EXCEPT ![t].b = large_]
            /\ blk' = [blk EXCEPT ![l.nb].next = large_]
            /\ UNCHANGED <<large_, memory_usage_, apc>>
  /\ UNCHANGED <<blocks_, acalls, rets, aflags>>

\* AllocateFinalize line 241-242: bytes == aligned selects next_upper
UsesUpper(bytes) == bytes = AlignUp(bytes, align_)

\* A variant of cas_diff that raises the cursor on both branches
CasDiffRaising(bytes) == bytes

\* AllocateFinalize lines 242-251: cas_diff and ret_diff
CasDiff(bytes) == IF UsesUpper(bytes) THEN 0 - bytes ELSE bytes
RetDiff(bytes) == IF UsesUpper(bytes) THEN 0 ELSE 0 - bytes

Cursor(rec, upper) == IF upper THEN rec.next_upper ELSE rec.next_lower

\* AllocateFinalize lines 238-252: choice of the cursor and its first load
FinLoad(t) ==
  /\ apc[t] = "fin_load"
  /\ LET up == UsesUpper(aloc[t].bytes) IN
     aloc' = [aloc EXCEPT ![t].upper = up,
                          ![t].expected = Cursor(blk[aloc[t].b], up)]
  /\ apc' = [apc EXCEPT ![t] = "fin_cas"]
  /\ UNCHANGED <<blk, blocks_, large_, memory_usage_, acalls, rets, aflags>>

\* AllocateFinalize lines 254-256: one turn of the cursor CAS loop
FinCas(t) ==
  /\ apc[t] = "fin_cas"
  /\ LET l == aloc[t]
         cur == Cursor(blk[l.b], l.upper)
     IN IF cur = l.expected
          THEN /\ blk' = IF l.upper
                           THEN [blk EXCEPT ![l.b].next_upper = l.expected + CasDiff(l.bytes)]
                           ELSE [blk EXCEPT ![l.b].next_lower = l.expected + CasDiff(l.bytes)]
               /\ apc' = [apc EXCEPT ![t] = "fin_ret"]
               /\ UNCHANGED aloc
          ELSE /\ aloc' = [aloc EXCEPT ![t].expected = cur]
               /\ UNCHANGED <<blk, apc>>
  /\ UNCHANGED <<blocks_, large_, memory_usage_, acalls, rets, aflags>>

\* AllocateFinalize lines 257-266 and the return to the caller of Allocate;
\* for AllocateAligned also the alignment assertion of line 181.
FinRet(t) ==
  /\ apc[t] = "fin_ret"
  /\ LET l == aloc[t]
         ret == l.expected + CasDiff(l.bytes) + RetDiff(l.bytes)
         okCursors == blk[l.b].next_lower <= blk[l.b].next_upper
         okAlign == (~l.al) \/ (ret % align_ = 0)
     IN /\ rets' = rets \cup {[p |-> ret, n |-> l.bytes, al |-> l.al, b |-> l.b, k |-> acalls]}
        /\ aflags' = [aflags EXCEPT !.assertFailed = @ \/ ~okCursors \/ ~okAlign]
        /\ memory_usage_' = Incremented(l.bytes)
  /\ apc' = [apc EXCEPT ![t] = "idle"]
  /\ aloc' = [aloc EXCEPT ![t] = ALocInit]
  /\ UNCHANGED <<blk, blocks_, large_, acalls>>

RECURSIVE Walk(_, _, _)
Walk(h, n, acc) ==
  IF h = NULL \/ n = 0 \/ h \in acc THEN acc
  ELSE Walk(blk[h].next, n - 1, acc \cup {h})

\* The Blocks reachable from a list head through the next pointers.
ListOf(head) == Walk(head, Len(blk), {})

InList(i, head) == IF i \in ListOf(head) THEN 1 ELSE 0

\* ~Arena lines 133-148, run by the owner once no call is in progress: every
\* Block met on the walk of blocks_ and then of large_ is deleted.  (A walk
\* that comes back to a Block it has deleted stops there.)
Destroy ==
  /\ \A t \in ArenaThreads : apc[t] = "idle"
  /\ ~aflags.destroyed
  /\ blk' = [i \in DOMAIN blk |->
               DeleteBlock(blk[i], InList(i, blocks_) + InList(i, large_))]
  /\ aflags' = [aflags EXCEPT !.destroyed = TRUE]
  /\ UNCHANGED <<blocks_, large_, memory_usage_, apc, aloc, acalls, rets>>

\* The steps of a thread inside a call
ArenaStep(t) ==
  \/ Reload(t)
  \/ LoadRem(t)
  \/ CasRem(t)
  \/ NewStdBlock(t)
  \/ LinkStd(t)
  \/ CasHead(t)
  \/ NewLargeBlock(t)
  \/ LargeLoad(t)
  \/ LargeCas(t)
  \/ FinLoad(t)
  \/ FinCas(t)
  \/ FinRet(t)

ArenaNext ==
  \/ Destroy
  \/ \E t \in ArenaThreads :
       \/ CallAllocate(t)
       \/ CallAllocateAligned(t)
       \/ ArenaStep(t)

\* Fair scheduling: a thread inside a call is not left forever without
\* executing its next instruction.
ArenaFairness == \A t \in ArenaThreads : WF_avars(ArenaStep(t))

\* The Arena when no Arena exists (the runs of the other components).
ArenaParked ==
  /\ blk = <<>> /\ blocks_ = NULL /\ large_ = NULL /\ memory_usage_ = 0
  /\ apc = [t \in ArenaThreads |-> "idle"]
  /\ aloc = [t \in ArenaThreads |-> ALocInit]
  /\ acalls = 0 /\ rets = {}
  /\ aflags = [mapFailed |-> 0, assertFailed |-> FALSE, destroyed |-> FALSE, wildRet |-> 0,
               wildCapped |-> TRUE]

(***************************************************************************)
(* PosixMmapFile: bounds, constants, state                                 *)
(***************************************************************************)
NFileThreads == 2
MaxFileOps == 3
MaxOsFaults == 1
NGrowThreads == 2
MaxGrowOps == 4
MaxCloses == 2
NWaitThreads == 3
MaxWaitOps == 3

\* block_size_ = Roundup(page_size, 262144) with the 4096-byte page
Roundup(x, y) == ((x + y - 1) \div y) * y
block_size_ == Roundup(PageSize, 262144)


\* (offset, length) of the WriteAt calls: the first byte of block 0, two bytes
\* that span blocks 0 and 1, one byte of block 9.
WriteArgs == {<<0, 1>>, <<block_size_ - 1, 2>>, <<9 * block_size_, 1>>}
AppendLens == {1}

\* (offset, length) of the WriteAt calls of the runs that exercise the growth
\* of the segment table: one byte in block 0, 1, 2 or 9 (blocks 1 and 2 round
\* to the same table length 9, blocks 0 and 9 to the lengths 1 and 17).
GrowArgs == {<<0, 1>>, <<block_size_, 1>>, <<2 * block_size_, 1>>, <<9 * block_size_, 1>>}

\* (offset, length) of the WriteAt calls of the runs that exercise the wait
\* on cnd_: one byte in block 1, for which the empty table must grow.
WaitArgs == {<<block_size_, 1>>}

VARIABLES
  fd_,                 \* TRUE while the descriptor is open (fd_ >= 0)
  end_offset_,         \* PosixMmapFile::end_offset_
  segments_,           \* the segment table: Seq of [base_, handle]; segments_sz_ is its length
  trunc_in_progress_,  \* PosixMmapFile::trunc_in_progress_
  trunc_waiters_,      \* PosixMmapFile::trunc_waiters_
  base_handle_,        \* PosixMmapFile::_base_handle
  flen,                \* OS: length of the underlying file
  content,             \* OS: file bytes that were written, offset -> id of the writing call
  handles,             \* OS: mapping objects ever created, Seq of [open, size]
  views,               \* OS: views ever mapped, Seq of [off, live]; a base address is an index
  fpc,                 \* position of each thread
  floc,                \* locals of each thread
  woken,               \* threads released from cnd_.Wait() by SignalAll
  wlog,                \* history: the WriteAt calls, Seq of [off, len, st, app, sz0, after]
  fhist,               \* history: counters and flags
  fcfg                 \* the callers of the run: [threads, ops, faults, args]

fvars == <<fd_, end_offset_, segments_, trunc_in_progress_, trunc_waiters_, base_handle_,
           flen, content, handles, views, fpc, floc, woken, wlog, fhist, fcfg>>

fobj == <<fd_, end_offset_, segments_, trunc_in_progress_, trunc_waiters_, base_handle_>>
fos == <<flen, content, handles, views>>

\* The threads of the run
FileThreads == 1..fcfg.threads

segments_sz_ == Len(segments_)

\* segments_[block] for a 0-based block index
Seg(block) == segments_[block + 1]

FLocInit == [id |-> 0, offset |-> 0, rem |-> 0, block |-> 0, cur_sz |-> 0, base |-> NULL,
             ptr |-> NULL, mine |-> FALSE, error |-> FALSE, new_sz |-> 0, st |-> "ok", seen |-> {},
             mapped0 |-> {}, fl |-> {}, stepFail |-> FALSE, tab |-> 0]

FHistInit == [ops |-> 0, faults |-> 0, ntrunc |-> 0, aborted |-> FALSE,
              assertFailed |-> FALSE, overflow |-> FALSE, closeSt |-> "none",
              synced |-> {}, shrunk |-> FALSE, started |-> {},
              closes |-> 0, fdCloses |-> 0, closeTruncs |-> 0, doubleUnmap |-> FALSE,
              closeFailed |-> {}, reSt |-> "none", arrays |-> 0, freedRead |-> FALSE]

\* The callers of a run: how many threads use the file, how many operations
\* they issue in all, how many OS calls may fail, which WriteAt calls occur.
IoCallers == [threads |-> NFileThreads, ops |-> MaxFileOps, faults |-> MaxOsFaults,
              args |-> WriteArgs]
GrowCallers == [threads |-> NGrowThreads, ops |-> MaxGrowOps, faults |-> 0,
                args |-> GrowArgs]

WaitCallers == [threads |-> NWaitThreads, ops |-> MaxWaitOps, faults |-> 0,
                args |-> WaitArgs]

\* State after PosixMmapFile(fname, fd, page_size) on the file that
\* NewConcurrentWritableFile has just created empty.
FileInit ==
  /\ fcfg = IoCallers
  /\ fd_ = TRUE
  /\ end_offset_ = 0
  /\ segments_ = <<>>
  /\ trunc_in_progress_ = FALSE
  /\ trunc_waiters_ = 0
  /\ base_handle_ = NULL
  /\ flen = 0
  /\ content = <<>>
  /\ handles = <<>>
  /\ views = <<>>
  /\ fpc = [t \in FileThreads |-> "idle"]
  /\ floc = [t \in FileThreads |-> FLocInit]
  /\ woken = {}
  /\ wlog = <<>>
  /\ fhist = FHistInit


Running == ~fhist.aborted /\ fd_

\* An OS call may fail while the budget of injected faults lasts.
Outcomes == IF fhist.faults < fcfg.faults THEN {TRUE, FALSE} ELSE {TRUE}
Fault(h, ok) == IF ok THEN h ELSE [h EXCEPT !.faults = @ + 1]

\* Thread t may issue an operation.  The threads are interchangeable, so they
\* make their first calls in the order of their numbers.
MayStart(t) ==
  /\ Running /\ fpc[t] = "idle"
  /\ fhist.ops < fcfg.ops
  /\ t <= fcfg.threads
  /\ t = 1 \/ (t - 1) \in fhist.started

Started(h, t) == [h EXCEPT !.ops = @ + 1, !.started = @ \cup {t}]

(***************************************************************************)
(* PosixMmapFile: OS calls                                                 *)
(***************************************************************************)
\* A mapping object is open on the file or a view of it is mapped.
UserMapped == (\E h \in 1..Len(handles) : handles[h].open)
              \/ (\E v \in 1..Len(views) : views[v].live)

\* _chsize(fd, size) that the OS is willing to carry out: extending is always
\* possible, shrinking is refused while the file has a user-mapped section.
ChsizeAllowed(size) == size >= flen \/ ~UserMapped

\* The file bytes left by a successful _chsize(fd, size)
Resized(size) == [o \in {x \in DOMAIN content : x < size} |-> content[o]]

\* MapViewOfFile(h, offset of block, block_size_) can succeed: the mapping
\* object is open and covers the block (its size is the file length at the
\* time CreateFileMappingA(hFile, NULL, PAGE_READWRITE, 0, 0, 0) made it).
ViewAllowed(h, block) ==
  /\ h # NULL
  /\ handles[h].open
  /\ (block + 1) * block_size_ <= handles[h].size

CloseHandle(hs, h) ==
  IF h # NULL /\ h <= Len(hs) THEN [hs EXCEPT ![h].open = FALSE] ELSE hs

(***************************************************************************)
(* PosixMmapFile: WriteAt / Append                                         *)
(***************************************************************************)
\* WriteAt lines 305-310: the call is logged and end_offset_ raised under mtx_.
EnterWriteAt(t, off, len, app) ==
  /\ wlog' = Append(wlog, [off |-> off, len |-> len, st |-> "run", app |-> app,
                           sz0 |-> 0 - 1,
                           after |-> {k \in 1..Len(wlog) :
                                        /\ wlog[k].st # "run"
                                        /\ wlog[k].off < off + len
                                        /\ off < wlog[k].off + wlog[k].len}])
  /\ end_offset_' = IF end_offset_ < off + len THEN off + len ELSE end_offset_
  /\ floc' = [floc EXCEPT ![t] = [FLocInit EXCEPT !.id = Len(wlog) + 1,
                                                  !.offset = off, !.rem = len]]
  /\ fpc' = [fpc EXCEPT ![t] = "wloop"]

StartWriteAt(t) ==
  /\ MayStart(t)
  /\ \E a \in fcfg.args : EnterWriteAt(t, a[1], a[2], FALSE)
  /\ fhist' = Started(fhist, t)
  /\ UNCHANGED <<fd_, segments_, trunc_in_progress_, trunc_waiters_, base_handle_, fos, woken>>

\* Append lines 329-331: offset = end_offset_ read under mtx_
StartAppend(t) ==
  /\ MayStart(t)
  /\ \E len \in AppendLens :
       floc' = [floc EXCEPT ![t] = [FLocInit EXCEPT !.offset = end_offset_, !.rem = len]]
  /\ fpc' = [fpc EXCEPT ![t] = "append"]
  /\ fhist' = Started(fhist, t)
  /\ UNCHANGED <<fobj, fos, woken, wlog>>

\* Append line 332: WriteAt(offset, data)
AppendWriteAt(t) ==
  /\ Running /\ fpc[t] = "append"
  /\ EnterWriteAt(t, floc[t].offset, floc[t].rem, TRUE)
  /\ UNCHANGED <<fd_, segments_, trunc_in_progress_, trunc_waiters_, base_handle_, fos, woken, fhist>>

\* WriteAt returns to its caller with status st.
ReturnWrite(t, st) ==
  /\ wlog' = [wlog EXCEPT ![floc[t].id].st = st]
  /\ fpc' = [fpc EXCEPT ![t] = "idle"]
  /\ floc' = [floc EXCEPT ![t] = FLocInit]

\* WriteAt lines 311-313 (rem > 0) and GetSegment lines 212-226: the block
\* index and the first critical section of GetSegment.
WLoop(t) ==
  /\ Running /\ fpc[t] = "wloop"
  /\ LET block == floc[t].offset \div block_size_
         base == IF block < segments_sz_ THEN Seg(block).base_ ELSE NULL
     IN /\ floc' = [floc EXCEPT ![t].block = block, ![t].cur_sz = segments_sz_,
                                ![t].base = base, ![t].mine = FALSE]
        /\ fpc' = [fpc EXCEPT ![t] =
                     IF base # NULL THEN "copy"
                     ELSE IF segments_sz_ <= block THEN "grow" ELSE "create"]
        /\ wlog' = [wlog EXCEPT ![floc[t].id].sz0 = IF @ < 0 THEN segments_sz_ ELSE @]
  /\ UNCHANGED <<fobj, fos, woken, fhist>>

\* GrowViaTruncate lines 163-171, from the loop test on: either the thread
\* waits on cnd_, or it leaves the critical section with cur_sz and the flag.
GrowTest(t, waiters) ==
  LET block == floc[t].block IN
  IF trunc_in_progress_ /\ segments_sz_ <= block
    THEN /\ trunc_waiters_' = waiters + 1
         /\ fpc' = [fpc EXCEPT ![t] = "gwait"]
         /\ woken' = woken \ {t}
         /\ UNCHANGED <<trunc_in_progress_, floc>>
    ELSE /\ trunc_waiters_' = waiters
         /\ trunc_in_progress_' = (segments_sz_ <= block)
         /\ floc' = [floc EXCEPT ![t].cur_sz = segments_sz_, ![t].error = FALSE]
         /\ fpc' = [fpc EXCEPT ![t] = IF segments_sz_ <= block THEN "chsize" ELSE "create"]
         /\ woken' = woken \ {t}

\* GrowViaTruncate entered from GetSegment line 223
GrowEnter(t) ==
  /\ Running /\ fpc[t] = "grow"
  /\ GrowTest(t, trunc_waiters_)
  /\ UNCHANGED <<fd_, end_offset_, segments_, base_handle_, fos, wlog, fhist>>

\* cnd_.Wait() returns after SignalAll: --trunc_waiters_ and the loop test again
GrowWake(t) ==
  /\ Running /\ fpc[t] = "gwait" /\ t \in woken
  /\ GrowTest(t, trunc_waiters_ - 1)
  /\ UNCHANGED <<fd_, end_offset_, segments_, base_handle_, fos, wlog, fhist>>

\* A table that grows to just cover the block, without the rounding.
NewSzNoRounding(block) == block + 1

\* GrowViaTruncate line 175: ((block + 7) & ~7ULL) + 1
NewSz(block) == ((block + 7) \div 8) * 8 + 1

\* GrowViaTruncate lines 175-182: the file-extend call, outside mtx_.
\* (All sizes of the model are below 2^31, where the conversion of the
\* 64-bit product to the long parameter of _chsize is exact.)
Chsize(t) ==
  /\ Running /\ fpc[t] = "chsize"
  /\ LET new_sz == NewSz(floc[t].block)
         size == new_sz * block_size_
     IN \E ok \in Outcomes :
          LET done == ok /\ ChsizeAllowed(size) IN
          /\ flen' = IF done THEN size ELSE flen
          /\ content' = IF done THEN Resized(size) ELSE content
          /\ floc' = [floc EXCEPT ![t].new_sz = new_sz, ![t].error = ~done]
          /\ fhist' = [Fault(fhist, ok) EXCEPT !.ntrunc = @ + 1,
                                               !.shrunk = @ \/ (done /\ size < flen)]
  /\ fpc' = [fpc EXCEPT ![t] = "swap"]
  /\ UNCHANGED <<fobj, handles, views, woken, wlog>>

\* The table GrowViaTruncate lines 186-193 build: the old entries copied
\* forward, the new ones null.  (When the old table is longer than new_sz the
\* copy loop writes past the end of new_segs; the entries kept are the first
\* new_sz.)
GrownTable(old, new_sz) ==
  [i \in 1..new_sz |-> IF i <= Len(old) THEN old[i] ELSE [base_ |-> NULL, handle |-> NULL]]

\* cnd_.SignalAll() line 197: the threads inside cnd_.Wait() are released
SignalAll == {u \in FileThreads : fpc[u] = "gwait"}

\* GrowViaTruncate lines 184-201: the table swap under mtx_, SignalAll, and
\* the return to GetSegment (lines 223-225), which gives up on error.
Swap(t) ==
  /\ Running /\ fpc[t] = "swap"
  /\ segments_' = GrownTable(segments_, floc[t].new_sz)
  /\ trunc_in_progress_' = FALSE
  /\ woken' = woken \cup SignalAll
  /\ fhist' = [fhist EXCEPT !.overflow = @ \/ (segments_sz_ > floc[t].new_sz),
                             !.arrays = @ + 1]
  /\ IF floc[t].error
       THEN ReturnWrite(t, "err")
       ELSE /\ fpc' = [fpc EXCEPT ![t] = "create"]
            /\ UNCHANGED <<floc, wlog>>
  /\ UNCHANGED <<fd_, end_offset_, trunc_waiters_, base_handle_, fos>>

\* GetSegment lines 237-245 and 257-261: CreateFileMappingA stored in the
\* member _base_handle, abort() when it fails (also for an empty file).
Create(t) ==
  /\ Running /\ fpc[t] = "create"
  /\ \E ok \in Outcomes :
       IF ok /\ flen > 0
         THEN /\ handles' = Append(handles, [open |-> TRUE, size |-> flen])
              /\ base_handle_' = Len(handles) + 1
              /\ floc' = [u \in FileThreads |-> [floc[u] EXCEPT !.mine = (u = t)]]
              /\ fpc' = [fpc EXCEPT ![t] = "mapview"]
              /\ UNCHANGED fhist
         ELSE /\ base_handle_' = NULL
              /\ fhist' = [Fault(fhist, ok) EXCEPT !.aborted = TRUE]
              /\ UNCHANGED <<handles, fpc, floc>>
  /\ UNCHANGED <<fd_, end_offset_, segments_, trunc_in_progress_, trunc_waiters_,
                 flen, content, views, woken, wlog>>

\* Every view mapped at the start of the file.
ViewOffsetZero(block) == 0

\* GetSegment lines 234-235: off_hi, off_lo, the file offset of the view
ViewOffset(block) == block * block_size_

\* GetSegment lines 246-255: MapViewOfFile on the member _base_handle as it
\* is now, abort() when it fails.
MapView(t) ==
  /\ Running /\ fpc[t] = "mapview"
  /\ \E ok \in Outcomes :
       IF ok /\ ViewAllowed(base_handle_, floc[t].block)
         THEN /\ views' = Append(views, [off |-> ViewOffset(floc[t].block), live |-> TRUE])
              /\ floc' = [floc EXCEPT ![t].ptr = Len(views) + 1]
              /\ fpc' = [fpc EXCEPT ![t] = "install"]
              /\ UNCHANGED fhist
         ELSE /\ fhist' = [Fault(fhist, ok) EXCEPT !.aborted = TRUE]
              /\ UNCHANGED <<views, floc, fpc>>
  /\ UNCHANGED <<fobj, flen, content, handles, woken, wlog>>

\* GetSegment lines 263-276: the second critical section.
Install(t) ==
  /\ Running /\ fpc[t] = "install"
  /\ LET block == floc[t].block IN
     IF ~(block < segments_sz_)
       THEN /\ fhist' = [fhist EXCEPT !.assertFailed = TRUE, !.aborted = TRUE]
            /\ UNCHANGED <<segments_, floc, fpc>>
       ELSE IF Seg(block).base_ # NULL
         THEN /\ floc' = [floc EXCEPT ![t].base = Seg(block).base_]
              /\ fpc' = [fpc EXCEPT ![t] = "unmap"]
              /\ UNCHANGED <<segments_, fhist>>
         ELSE /\ segments_' = [segments_ EXCEPT ![block + 1] =
                                 [base_ |-> floc[t].ptr, handle |-> base_handle_]]
              /\ floc' = [floc EXCEPT ![t].base = floc[t].ptr]
              /\ fpc' = [fpc EXCEPT ![t] = "copy"]
              /\ UNCHANGED fhist
  /\ UNCHANGED <<fd_, end_offset_, trunc_in_progress_, trunc_waiters_, base_handle_,
                 fos, woken, wlog>>

\* GetSegment lines 277-282 with UnmapSegment lines 204-208: the duplicate
\* view is unmapped and the member _base_handle is closed.
Unmap(t) ==
  /\ Running /\ fpc[t] = "unmap"
  /\ \E ok \in Outcomes :
       /\ views' = [views EXCEPT ![floc[t].ptr].live = ~ok]
       /\ handles' = CloseHandle(handles, base_handle_)
       /\ fhist' = Fault(fhist, ok)
       /\ IF ok THEN /\ fpc' = [fpc EXCEPT ![t] = "copy"]
                     /\ UNCHANGED <<floc, wlog>>
                ELSE ReturnWrite(t, "err")
  /\ UNCHANGED <<fobj, flen, content, woken>>

\* WriteAt lines 314-325: memmove of the part that falls into the block;
\* the loop ends and WriteAt returns OK when nothing remains.
Copy(t) ==
  /\ Running /\ fpc[t] = "copy"
  /\ LET l == floc[t]
         loff == l.offset - l.block * block_size_
         n == IF block_size_ - loff < l.rem THEN block_size_ - loff ELSE l.rem
         at == views[l.base].off + loff
         new == at .. (at + n - 1)
     IN IF views[l.base].live
          THEN /\ content' = [o \in DOMAIN content \cup new |->
                                IF o \in new THEN l.id ELSE content[o]]
               /\ IF l.rem - n = 0
                    THEN ReturnWrite(t, "ok")
                    ELSE /\ floc' = [floc EXCEPT ![t].rem = l.rem - n,
                                                 ![t].offset = l.offset + n]
                         /\ fpc' = [fpc EXCEPT ![t] = "wloop"]
                         /\ UNCHANGED wlog
               /\ UNCHANGED fhist
          ELSE /\ fhist' = [fhist EXCEPT !.aborted = TRUE]
               /\ UNCHANGED <<content, floc, fpc, wlog>>
  /\ UNCHANGED <<fobj, flen, handles, views, woken>>

(***************************************************************************)
(* PosixMmapFile: Sync / Close                                             *)
(***************************************************************************)
\* The WriteAt calls that have returned OK
WritesOk == {k \in 1..Len(wlog) : wlog[k].st = "ok"}

\* The base addresses of the non-null entries of the table
MappedBases ==
  {segments_[i].base_ : i \in {j \in 1..segments_sz_ : segments_[j].base_ # NULL}}

\* Sync lines 440-447; the history fields of the call: the writes that had
\* returned OK (seen) and the segments mapped (mapped0) when it started.
StartSync(t) ==
  /\ MayStart(t)
  /\ floc' = [floc EXCEPT ![t] = [FLocInit EXCEPT !.seen = WritesOk,
                                                  !.mapped0 = MappedBases]]
  /\ fpc' = [fpc EXCEPT ![t] = "sync1"]
  /\ fhist' = Started(fhist, t)
  /\ UNCHANGED <<fobj, fos, woken, wlog>>

\* Sync lines 449-457 and 469: the table entry is read under mtx_; the walk
\* ends at the first null entry or at the end of the table.
SyncRead(t) ==
  /\ Running /\ fpc[t] = "sync1"
  /\ LET block == floc[t].block
         base == IF block < segments_sz_ THEN Seg(block).base_ ELSE NULL
     IN IF base = NULL
          THEN /\ fhist' = [fhist EXCEPT !.synced =
                              IF floc[t].st = "ok" THEN @ \cup floc[t].seen ELSE @]
               /\ fpc' = [fpc EXCEPT ![t] = "idle"]
               /\ floc' = [floc EXCEPT ![t] = FLocInit]
          ELSE /\ floc' = [floc EXCEPT ![t].base = base]
               /\ fpc' = [fpc EXCEPT ![t] = "sync2"]
               /\ UNCHANGED fhist
  /\ UNCHANGED <<fobj, fos, woken, wlog>>

\* FlushFileBuffers applied to the handle of a mapping object (not of a
\* file): the call is refused, it returns 0.
FlushFileBuffers(h) == FALSE

\* Sync lines 461-464: FlushViewOfFile, then the member segments_ is loaded
\* for the expression segments_[block].handle, outside mtx_ (tab = the table
\* array that the pointer designates).
SyncFlush(t) ==
  /\ Running /\ fpc[t] = "sync2"
  /\ \E ok \in Outcomes :
       LET bad == ~(ok /\ views[floc[t].base].live)
       IN /\ floc' = [floc EXCEPT ![t].st = IF bad THEN "err" ELSE @,
                                  ![t].fl = @ \cup {floc[t].base},
                                  ![t].stepFail = @ \/ bad,
                                  ![t].tab = fhist.arrays]
          /\ fhist' = Fault(fhist, ok)
  /\ fpc' = [fpc EXCEPT ![t] = "sync3"]
  /\ UNCHANGED <<fobj, fos, woken, wlog>>

\* What FlushFileBuffers can return for the handle read through the table
\* pointer: the array may have been replaced and deleted by GrowViaTruncate
\* since the pointer was loaded, and the value read from it is then
\* indeterminate.
HandleFlushed(t) ==
  IF floc[t].tab = fhist.arrays
    THEN {FlushFileBuffers(IF floc[t].block < segments_sz_
                             THEN Seg(floc[t].block).handle ELSE NULL)}
    ELSE BOOLEAN

\* Sync lines 464-467: the entry is read through the loaded pointer,
\* FlushFileBuffers is called on the handle and its result is tested as
\* "!r == 0"; then ++block.
SyncHandle(t) ==
  /\ Running /\ fpc[t] = "sync3"
  /\ \E r \in HandleFlushed(t) :
       LET bad == ((~r) = FALSE)
       IN floc' = [floc EXCEPT ![t].st = IF bad THEN "err" ELSE @,
                               ![t].block = @ + 1,
                               ![t].stepFail = @ \/ ~r]
  /\ fhist' = [fhist EXCEPT !.freedRead = @ \/ floc[t].tab # fhist.arrays]
  /\ fpc' = [fpc EXCEPT ![t] = "sync1"]
  /\ UNCHANGED <<fobj, fos, woken, wlog>>

RECURSIVE UnmapAll(_, _, _)
\* Close lines 370-380 on table entries i..: the views and handles left
UnmapAll(vh, segs, failing) ==
  IF segs = <<>> THEN vh
  ELSE LET e == Head(segs)
           vh2 == IF e.base_ = NULL THEN vh
                  ELSE [v |-> IF e.base_ \in failing THEN vh.v
                              ELSE [vh.v EXCEPT ![e.base_].live = FALSE],
                        h |-> CloseHandle(vh.h, e.handle)]
       IN UnmapAll(vh2, Tail(segs), failing)

\* Close lines 370-392: the status returned after the three kinds of steps
CloseStatus(unmapOk, truncOk, closeOk) ==
  LET s1 == IF unmapOk THEN "ok" ELSE "bad close 1"
      s2 == IF truncOk THEN s1 ELSE "bad close 2"
  IN IF closeOk THEN s2 ELSE IF s2 = "ok" THEN "bad close 3" ELSE s2

\* A Close that leaves the descriptor in fd_.
FdKeptOpen == TRUE

\* Close line 343: fd_ = -1
FdAfterClose == FALSE

\* Close lines 335-393, called by the owner once no other thread uses the
\* file, and again by the destructor (line 301).  A call that finds the
\* descriptor already taken returns OK at line 352.
Close ==
  /\ ~fhist.aborted
  /\ \A t \in FileThreads : fpc[t] = "idle"
  /\ fhist.closes < MaxCloses
  /\ IF fd_
       THEN
         /\ \E fault \in {"none", "unmap", "trunc", "close"} :
              /\ fault = "none" \/ fhist.faults < fcfg.faults
              /\ fault = "unmap" => MappedBases # {}
              /\ LET failing == IF fault = "unmap" THEN {CHOOSE v \in MappedBases : TRUE} ELSE {}
                     vh == UnmapAll([v |-> views, h |-> handles], segments_, failing)
                     userMapped == (\E h \in 1..Len(vh.h) : vh.h[h].open)
                                    \/ (\E v \in 1..Len(vh.v) : vh.v[v].live)
                     truncOk == fault # "trunc" /\ (end_offset_ >= flen \/ ~userMapped)
                 IN /\ views' = vh.v
                    /\ handles' = vh.h
                    /\ flen' = IF truncOk THEN end_offset_ ELSE flen
                    /\ content' = IF truncOk THEN Resized(end_offset_) ELSE content
                    /\ fhist' = [fhist EXCEPT
                         !.faults = IF fault = "none" THEN @ ELSE @ + 1,
                         !.ntrunc = @ + 1,
                         !.closes = @ + 1,
                         !.fdCloses = @ + 1,
                         !.closeTruncs = @ + 1,
                         !.doubleUnmap = @ \/ (\E v \in MappedBases : ~views[v].live),
                         !.closeFailed = (IF fault = "unmap" THEN {"unmap"} ELSE {})
                                           \cup (IF truncOk THEN {} ELSE {"trunc"})
                                           \cup (IF fault = "close" THEN {"close"} ELSE {}),
                         !.closeSt = IF fhist.closes = 0
                                       THEN CloseStatus(fault # "unmap", truncOk, fault # "close")
                                       ELSE @,
                         !.reSt = IF fhist.closes = 0
                                     THEN @
                                     ELSE CloseStatus(fault # "unmap", truncOk, fault # "close")]
         /\ fd_' = FdAfterClose
         /\ end_offset_' = 0
         /\ segments_' = <<>>
       ELSE
         /\ fhist' = [fhist EXCEPT !.closes = @ + 1, !.reSt = "ok"]
         /\ UNCHANGED <<fd_, end_offset_, segments_, fos>>
  /\ UNCHANGED <<trunc_in_progress_, trunc_waiters_, base_handle_, fpc, floc, woken, wlog>>

FileNext ==
  \/ \E t \in FileThreads :
       \/ StartWriteAt(t)
       \/ StartAppend(t)
       \/ AppendWriteAt(t)
       \/ WLoop(t)
       \/ GrowEnter(t)
       \/ GrowWake(t)
       \/ Chsize(t)
       \/ Swap(t)
       \/ Create(t)
       \/ MapView(t)
       \/ Install(t)
       \/ Unmap(t)
       \/ Copy(t)
       \/ StartSync(t)
       \/ SyncRead(t)
       \/ SyncFlush(t)
       \/ SyncHandle(t)
  \/ Close

\* The runs that exercise the growth of the segment table: WriteAt calls
\* only, from more threads, with an OS that never fails.
GrowInit ==
  /\ fcfg = GrowCallers
  /\ fd_ = TRUE /\ end_offset_ = 0 /\ segments_ = <<>>
  /\ trunc_in_progress_ = FALSE /\ trunc_waiters_ = 0 /\ base_handle_ = NULL
  /\ flen = 0 /\ content = <<>> /\ handles = <<>> /\ views = <<>>
  /\ fpc = [t \in FileThreads |-> "idle"]
  /\ floc = [t \in FileThreads |-> FLocInit]
  /\ woken = {} /\ wlog = <<>> /\ fhist = FHistInit

\* The steps of a thread inside WriteAt
WriteStep(t) ==
  \/ WLoop(t)
  \/ GrowEnter(t)
  \/ GrowWake(t)
  \/ Chsize(t)
  \/ Swap(t)
  \/ Create(t)
  \/ MapView(t)
  \/ Install(t)
  \/ Unmap(t)
  \/ Copy(t)

GrowNext ==
  \E t \in FileThreads :
    \/ StartWriteAt(t)
    \/ WriteStep(t)

\* The runs that exercise the wait on cnd_: as GrowInit, with three threads.
WaitInit ==
  /\ fcfg = WaitCallers
  /\ fd_ = TRUE /\ end_offset_ = 0 /\ segments_ = <<>>
  /\ trunc_in_progress_ = FALSE /\ trunc_waiters_ = 0 /\ base_handle_ = NULL
  /\ flen = 0 /\ content = <<>> /\ handles = <<>> /\ views = <<>>
  /\ fpc = [t \in FileThreads |-> "idle"]
  /\ floc = [t \in FileThreads |-> FLocInit]
  /\ woken = {} /\ wlog = <<>> /\ fhist = FHistInit

\* Fair scheduling: a thread inside WriteAt is not left forever without
\* executing a step it can take; every file-extend call returns (Chsize is
\* one of the steps).
WaitFairness == \A t \in 1..NWaitThreads : WF_fvars(WriteStep(t) /\ UNCHANGED fcfg)

\* The file when no file is open (the runs of the other components).
FileParked ==
  /\ fcfg = IoCallers
  /\ fd_ = FALSE /\ end_offset_ = 0 /\ segments_ = <<>>
  /\ trunc_in_progress_ = FALSE /\ trunc_waiters_ = 0 /\ base_handle_ = NULL
  /\ flen = 0 /\ content = <<>> /\ handles = <<>> /\ views = <<>>
  /\ fpc = [t \in FileThreads |-> "idle"]
  /\ floc = [t \in FileThreads |-> FLocInit]
  /\ woken = {} /\ wlog = <<>> /\ fhist = FHistInit

(***************************************************************************)
(* PosixEnv: the background task scheduler                                 *)
(***************************************************************************)
NSchedCallers == 2
MaxTasks == 3
MaxWorkers == 2

SchedCallers == 1..NSchedCallers
Workers == 1..MaxWorkers
NoOwner == <<"none", 0>>

VARIABLES
  queue_,      \* std::deque<BGItem>, Seq of task numbers, front first
  bgthread_,   \* the scoped_ptr is non-null
  mu_,         \* owner of the mutex: NoOwner, <<"caller", c>> or <<"bg", w>>
  spc,         \* position of each thread that calls Schedule
  wpc,         \* position of each background thread, "none" before it exists
  witem,       \* the item a background thread popped: function and arg
  enq,         \* history: the tasks in the order push_back appended them
  started,     \* history: the tasks in the order their functions were called
  done,        \* history: the tasks whose functions have returned
  shist        \* history: calls made, tasks that called Schedule, wakeups

svars == <<queue_, bgthread_, mu_, spc, wpc, witem, enq, started, done, shist>>

\* PosixEnv::PosixEnv() line 1120: no thread, empty queue
SchedInit ==
  /\ queue_ = <<>>
  /\ bgthread_ = FALSE
  /\ mu_ = NoOwner
  /\ spc = [c \in SchedCallers |-> "idle"]
  /\ wpc = [w \in Workers |-> "none"]
  /\ witem = [w \in Workers |-> 0]
  /\ enq = <<>> /\ started = <<>> /\ done = {}
  /\ shist = [calls |-> 0, resched |-> {}, woke |-> FALSE]

\* A thread started at every call.
NeedThreadAlways(bg) == TRUE

\* Schedule line 1126: if (!bgthread_)
NeedThread(bg) == ~bg

\* Schedule lines 1127-1128: new boost::thread running BGThreadWrapper
Spawned(wp) ==
  IF \E w \in Workers : wp[w] = "none"
    THEN LET n == CHOOSE w \in Workers :
                    wp[w] = "none" /\ \A u \in Workers : wp[u] = "none" => w <= u
         IN [wp EXCEPT ![n] = "lock"]
    ELSE wp

\* An item put at the head of the queue.
PushFront(q, x) == <<x>> \o q

\* Schedule lines 1132-1134: queue_.push_back(BGItem())
PushBack(q, x) == Append(q, x)

\* A notification that wakes nobody.
NotifyNone(ws) == {{}}

\* Schedule line 1138: bgsignal_.notify_one() wakes one of the threads that
\* wait, if any; the result is the set of possible sets of woken threads.
NotifyOne(ws) == IF ws = {} THEN {{}} ELSE {{w} : w \in ws}

Waiting == {w \in Workers : wpc[w] = "wait"}

\* Schedule lines 1125-1136 by owner o of mu_: thread start, push_back, unlock
Enqueue(o, wp) ==
  /\ mu_ = o
  /\ wpc' = IF NeedThread(bgthread_) THEN Spawned(wp) ELSE wp
  /\ bgthread_' = TRUE
  /\ queue_' = PushBack(queue_, Len(enq) + 1)
  /\ enq' = Append(enq, Len(enq) + 1)
  /\ mu_' = NoOwner

\* Schedule line 1138 with the woken set ws
Notify(ws, wp) == [w \in Workers |-> IF w \in ws THEN "lock" ELSE wp[w]]

\* Schedule line 1123: the call begins by taking mu_
ScheduleLock(c) ==
  /\ spc[c] = "idle"
  /\ shist.calls < MaxTasks
  /\ mu_ = NoOwner
  /\ mu_' = <<"caller", c>>
  /\ spc' = [spc EXCEPT ![c] = "push"]
  /\ shist' = [shist EXCEPT !.calls = @ + 1]
  /\ UNCHANGED <<queue_, bgthread_, wpc, witem, enq, started, done>>

SchedulePush(c) ==
  /\ spc[c] = "push"
  /\ Enqueue(<<"caller", c>>, wpc)
  /\ spc' = [spc EXCEPT ![c] = "notify"]
  /\ UNCHANGED <<witem, started, done, shist>>

ScheduleNotify(c) ==
  /\ spc[c] = "notify"
  /\ \E ws \in NotifyOne(Waiting) :
       /\ wpc' = Notify(ws, wpc)
       /\ shist' = [shist EXCEPT !.woke = @ \/ ws # {}]
  /\ spc' = [spc EXCEPT ![c] = "idle"]
  /\ UNCHANGED <<queue_, bgthread_, mu_, witem, enq, started, done>>

\* BGThread line 1145: unique_lock lock(mu_), also when wait() returns
BGLock(w) ==
  /\ wpc[w] = "lock"
  /\ mu_ = NoOwner
  /\ mu_' = <<"bg", w>>
  /\ wpc' = [wpc EXCEPT ![w] = "test"]
  /\ UNCHANGED <<queue_, bgthread_, spc, witem, enq, started, done, shist>>

\* BGThread lines 1147-1155: wait (which releases mu_) while the queue is
\* empty, else take the front item, pop it and unlock
BGTest(w) ==
  /\ wpc[w] = "test"
  /\ mu_ = <<"bg", w>>
  /\ mu_' = NoOwner
  /\ IF queue_ = <<>>
       THEN /\ wpc' = [wpc EXCEPT ![w] = "wait"]
            /\ UNCHANGED <<queue_, witem>>
       ELSE /\ witem' = [witem EXCEPT ![w] = Head(queue_)]
            /\ queue_' = Tail(queue_)
            /\ wpc' = [wpc EXCEPT ![w] = "call"]
  /\ UNCHANGED <<bgthread_, spc, enq, started, done, shist>>

\* condition_variable::wait may return without a notification (line 1148)
BGSpurious(w) ==
  /\ wpc[w] = "wait"
  /\ wpc' = [wpc EXCEPT ![w] = "lock"]
  /\ UNCHANGED <<queue_, bgthread_, mu_, spc, witem, enq, started, done, shist>>

\* BGThread line 1156: (*function)(arg) is entered
BGCall(w) ==
  /\ wpc[w] = "call"
  /\ started' = Append(started, witem[w])
  /\ wpc' = [wpc EXCEPT ![w] = "run"]
  /\ UNCHANGED <<queue_, bgthread_, mu_, spc, witem, enq, done, shist>>

\* The task returns; BGThread loops (line 1143)
TaskDone(w) ==
  /\ wpc[w] = "run"
  /\ done' = done \cup {witem[w]}
  /\ witem' = [witem EXCEPT ![w] = 0]
  /\ wpc' = [wpc EXCEPT ![w] = "lock"]
  /\ UNCHANGED <<queue_, bgthread_, mu_, spc, enq, started, shist>>

\* The running task calls Schedule itself (line 1123)
TaskLock(w) ==
  /\ wpc[w] = "run"
  /\ shist.calls < MaxTasks
  /\ witem[w] \notin shist.resched
  /\ mu_ = NoOwner
  /\ mu_' = <<"bg", w>>
  /\ wpc' = [wpc EXCEPT ![w] = "tpush"]
  /\ shist' = [shist EXCEPT !.calls = @ + 1, !.resched = @ \cup {witem[w]}]
  /\ UNCHANGED <<queue_, bgthread_, spc, witem, enq, started, done>>

TaskPush(w) ==
  /\ wpc[w] = "tpush"
  /\ Enqueue(<<"bg", w>>, [wpc EXCEPT ![w] = "tnotify"])
  /\ UNCHANGED <<spc, witem, started, done, shist>>

TaskNotify(w) ==
  /\ wpc[w] = "tnotify"
  /\ \E ws \in NotifyOne(Waiting) :
       /\ wpc' = [Notify(ws, wpc) EXCEPT ![w] = "run"]
       /\ shist' = [shist EXCEPT !.woke = @ \/ ws # {}]
  /\ UNCHANGED <<queue_, bgthread_, mu_, spc, witem, enq, started, done>>

SchedNext ==
  \/ \E c \in SchedCallers :
       \/ ScheduleLock(c)
       \/ SchedulePush(c)
       \/ ScheduleNotify(c)
  \/ \E w \in Workers :
       \/ BGLock(w)
       \/ BGTest(w)
       \/ BGSpurious(w)
       \/ BGCall(w)
       \/ TaskDone(w)
       \/ TaskLock(w)
       \/ TaskPush(w)
       \/ TaskNotify(w)

\* The steps a fair scheduler lets every thread take once it can: all but
\* the decision to call Schedule and the spurious wakeup.
SchedFairness ==
  /\ \A c \in SchedCallers :
       WF_svars(SchedulePush(c)) /\ WF_svars(ScheduleNotify(c))
  /\ \A w \in Workers :
       /\ WF_svars(BGLock(w)) /\ WF_svars(BGTest(w)) /\ WF_svars(BGCall(w))
       /\ WF_svars(TaskDone(w)) /\ WF_svars(TaskPush(w)) /\ WF_svars(TaskNotify(w))

\* The scheduler of an environment nobody has used (other components' runs).
SchedParked == SchedInit

(***************************************************************************)
(* PosixEnv: LockFile / UnlockFile / RenameFile                            *)
(***************************************************************************)
NLockers == 2
MaxEnvOps == 4
MaxEnvFaults == 1

\* RenameFile line 987: err == 0x000000b7
ERROR_ALREADY_EXISTS == 183

\* The error codes of the other failures of MoveFileW: the source is absent
\* (ERROR_FILE_NOT_FOUND), the move is refused (ERROR_ACCESS_DENIED).
SourceAbsent == {2}
MoveRefused == {5}

Lockers == 1..NLockers

VARIABLES
  lholder,     \* OS: the holder of the lock on the lock file, 0 when free
  lpc,         \* position of each caller of LockFile
  lret,        \* status each caller's last LockFile returned
  lptr,        \* *lock of each caller: NULL or its BoostFileLock
  lexists,     \* OS: the lock file exists
  rfs,         \* OS: what the source and the target path of the rename hold, 0 = absent
  rpc,         \* position of the caller of RenameFile
  rerr,        \* GetLastError() after the last MoveFileW
  rret,        \* status RenameFile returned
  ehist        \* history: calls, failures injected, the files before the rename

evars == <<lholder, lpc, lret, lptr, lexists, rfs, rpc, rerr, rret, ehist>>

\* An environment with or without the lock file, and a rename whose source
\* and target each exist or not.
EnvInit ==
  /\ lholder = 0
  /\ lpc = [c \in Lockers |-> "idle"]
  /\ lret = [c \in Lockers |-> "none"]
  /\ lptr = [c \in Lockers |-> NULL]
  /\ lexists \in BOOLEAN
  /\ rfs \in [src : {0, 1}, tgt : {0, 2}]
  /\ rpc = "idle" /\ rerr = 0 /\ rret = "none"
  /\ ehist = [ops |-> 0, faults |-> 0, orig |-> rfs, moveFailed |-> FALSE, waited |-> {}]

EnvOutcomes == IF ehist.faults < MaxEnvFaults THEN {TRUE, FALSE} ELSE {TRUE}

\* LockFile lines 999-1008: *lock = NULL, the file is created when absent
LockStart(c) ==
  /\ lpc[c] = "idle" /\ lholder # c
  /\ ehist.ops < MaxEnvOps
  /\ lptr' = [lptr EXCEPT ![c] = NULL]
  /\ lret' = [lret EXCEPT ![c] = "none"]
  /\ lexists' = TRUE
  /\ lpc' = [lpc EXCEPT ![c] = "open"]
  /\ ehist' = [ehist EXCEPT !.ops = @ + 1]
  /\ UNCHANGED <<lholder, rfs, rpc, rerr, rret>>

\* LockFile lines 1010-1012 and 1015-1017: the file_lock constructor opens
\* the file; when it throws, the catch block returns IOError
LockOpen(c) ==
  /\ lpc[c] = "open"
  /\ \E ok \in EnvOutcomes :
       /\ lpc' = [lpc EXCEPT ![c] = IF ok THEN "lock" ELSE "idle"]
       /\ lret' = [lret EXCEPT ![c] = IF ok THEN @ ELSE "err"]
       /\ ehist' = [ehist EXCEPT !.faults = IF ok THEN @ ELSE @ + 1,
                                 !.waited = IF ok /\ lholder # 0 THEN @ \cup {c} ELSE @]
  /\ UNCHANGED <<lholder, lptr, lexists, rfs, rpc, rerr, rret>>

\* LockFile lines 1013-1014 and 1019: fl_.lock() returns once the caller
\* holds the lock (it waits while another holder has it), *lock = my_lock
LockAcquire(c) ==
  /\ lpc[c] = "lock"
  /\ lholder = 0
  /\ lholder' = c
  /\ lptr' = [lptr EXCEPT ![c] = c]
  /\ lret' = [lret EXCEPT ![c] = "ok"]
  /\ lpc' = [lpc EXCEPT ![c] = "idle"]
  /\ UNCHANGED <<lexists, rfs, rpc, rerr, rret, ehist>>

\* UnlockFile lines 1022-1035
UnlockFile(c) ==
  /\ lpc[c] = "idle" /\ lholder = c
  /\ ehist.ops < MaxEnvOps
  /\ lholder' = 0
  /\ lptr' = [lptr EXCEPT ![c] = NULL]
  /\ ehist' = [ehist EXCEPT !.ops = @ + 1]
  /\ UNCHANGED <<lpc, lret, lexists, rfs, rpc, rerr, rret>>

\* MoveFileW(src, target): the possible results [ok, err, fs]
MoveFileW(fs, outcomes) ==
  IF fs.src = 0
    THEN {[ok |-> FALSE, err |-> e, fs |-> fs] : e \in SourceAbsent}
  ELSE IF fs.tgt # 0
    THEN {[ok |-> FALSE, err |-> ERROR_ALREADY_EXISTS, fs |-> fs]}
  ELSE {[ok |-> TRUE, err |-> 0, fs |-> [src |-> 0, tgt |-> fs.src]]}
       \cup (IF FALSE \in outcomes
               THEN {[ok |-> FALSE, err |-> e, fs |-> fs] : e \in MoveRefused}
               ELSE {})

\* RenameFile lines 985-987 (first call) and 990-992 (second call):
\* MoveFileW, GetLastError and the status that results
RenameMove(onlyWhen) ==
  /\ rpc = onlyWhen
  /\ \E m \in MoveFileW(rfs, EnvOutcomes) :
       /\ rfs' = m.fs
       /\ rerr' = m.err
       /\ ehist' = [ehist EXCEPT
                      !.ops = IF onlyWhen = "idle" THEN @ + 1 ELSE @,
                      !.faults = IF m.err \in MoveRefused THEN @ + 1 ELSE @,
                      !.moveFailed = ~m.ok]
       /\ IF onlyWhen = "idle"
            THEN /\ rpc' = IF ~m.ok /\ m.err = ERROR_ALREADY_EXISTS THEN "delete" ELSE "done"
                 /\ rret' = "ok"
            ELSE /\ rpc' = "done"
                 /\ rret' = IF m.ok THEN "ok" ELSE "err"
  /\ UNCHANGED <<lholder, lpc, lret, lptr, lexists>>

RenameFirstMove == ehist.ops < MaxEnvOps /\ RenameMove("idle")

\* RenameFile lines 988-989: DeleteFileW(target)
RenameDelete ==
  /\ rpc = "delete"
  /\ \E ok \in EnvOutcomes :
       /\ rfs' = IF ok THEN [rfs EXCEPT !.tgt = 0] ELSE rfs
       /\ rpc' = IF ok THEN "move2" ELSE "done"
       /\ rret' = IF ok THEN rret ELSE "err"
       /\ ehist' = [ehist EXCEPT !.faults = IF ok THEN @ ELSE @ + 1]
  /\ UNCHANGED <<lholder, lpc, lret, lptr, lexists, rerr>>

\* RenameFile lines 990-992: the second MoveFileW
RenameSecondMove == RenameMove("move2")

EnvNext ==
  \/ \E c \in Lockers :
       \/ LockStart(c)
       \/ LockOpen(c)
       \/ LockAcquire(c)
       \/ UnlockFile(c)
  \/ RenameFirstMove
  \/ RenameDelete
  \/ RenameSecondMove

\* The environment calls of a run that makes none.
EnvParked ==
  /\ lholder = 0
  /\ lpc = [c \in Lockers |-> "idle"]
  /\ lret = [c \in Lockers |-> "none"]
  /\ lptr = [c \in Lockers |-> NULL]
  /\ lexists = FALSE
  /\ rfs = [src |-> 0, tgt |-> 0]
  /\ rpc = "idle" /\ rerr = 0 /\ rret = "none"
  /\ ehist = [ops |-> 0, faults |-> 0, orig |-> rfs, moveFailed |-> FALSE, waited |-> {}]

(***************************************************************************)
(* Specifications                                                          *)
(***************************************************************************)
vars == <<avars, fvars, svars, evars>>

InitArena == ArenaInit /\ FileParked /\ SchedParked /\ EnvParked
NextArena == ArenaNext /\ UNCHANGED <<fvars, svars, evars>>
SpecArena == InitArena /\ [][NextArena]_vars

InitArenaFair == ArenaInitAnyReturn /\ FileParked /\ SchedParked /\ EnvParked
SpecArenaFair == InitArenaFair /\ [][NextArena]_vars /\ ArenaFairness

InitFile == FileInit /\ ArenaParked /\ SchedParked /\ EnvParked
NextFile == FileNext /\ UNCHANGED <<avars, fcfg, svars, evars>>
SpecFile == InitFile /\ [][NextFile]_vars

InitGrow == GrowInit /\ ArenaParked /\ SchedParked /\ EnvParked
NextGrow == GrowNext /\ UNCHANGED <<avars, fcfg, svars, evars>>
SpecGrow == InitGrow /\ [][NextGrow]_vars

InitWait == WaitInit /\ ArenaParked /\ SchedParked /\ EnvParked
SpecWait == InitWait /\ [][NextGrow]_vars /\ WaitFairness

InitSched == SchedInit /\ ArenaParked /\ FileParked /\ EnvParked
NextSched == SchedNext /\ UNCHANGED <<avars, fvars, evars>>
SpecSched == InitSched /\ [][NextSched]_vars

SpecSchedFair == InitSched /\ [][NextSched]_vars /\ SchedFairness

InitEnv == EnvInit /\ ArenaParked /\ FileParked /\ SchedParked
NextEnv == EnvNext /\ UNCHANGED <<avars, fvars, svars>>
SpecEnv == InitEnv /\ [][NextEnv]_vars

(***************************************************************************)
(* Arena: properties                                                       *)
(***************************************************************************)
RECURSIVE SumN(_)
SumN(S) == IF S = {} THEN 0
           ELSE LET x == CHOOSE y \in S : TRUE IN x.n + SumN(S \ {x})

RECURSIVE SumSize(_)
SumSize(I) == IF I = {} THEN 0
              ELSE LET i == CHOOSE j \in I : TRUE IN blk[i].size + SumSize(I \ {i})

MappedBlocks == {i \in 1..Len(blk) : blk[i].mapped}

Disjoint(r1, r2) == r1.p + r1.n <= r2.p \/ r2.p + r2.n <= r1.p

InsideBlock(r, i) == blk[i].base <= r.p /\ r.p + r.n <= blk[i].base + blk[i].size

\* C1: the ranges [p, p+n) returned by distinct calls never overlap, each lies
\* wholly inside the mapped region of one Block, and the sum of the returned
\* sizes never exceeds the bytes mapped across all Blocks (as long as the
\* Arena has not been destroyed).
C1_RangesDisjointAndMapped ==
  /\ \A r1, r2 \in rets : r1 # r2 => Disjoint(r1, r2)
  /\ aflags.destroyed \/ \A r \in rets : \E i \in MappedBlocks : InsideBlock(r, i)
  /\ aflags.destroyed \/ SumN(rets) <= SumSize(MappedBlocks)

\* C2: every address returned by AllocateAligned is a multiple of the
\* alignment (the assertion of AllocateAligned line 181 never fails).
C2_AlignedReturns ==
  \A r \in rets : r.al => r.p % align_ = 0

\* C3: a call takes the large path iff n > 16384; each large call is served
\* alone from one dedicated Block of size n rounded up to the page size that
\* sits on the large list and not on the normal list; an ordinary call is
\* served from a Block that is not on the large list.
C3_LargePathDedicatedBlock ==
  \A r \in rets :
    IF r.n > 16384
      THEN /\ r.b \in ListOf(large_)
           /\ r.b \notin ListOf(blocks_)
           /\ blk[r.b].size = AlignUp(r.n, PageSize)
           /\ \A r2 \in rets : r2.b = r.b => r2 = r
      ELSE r.b \notin ListOf(large_)

\* C4: when the OS refuses the mapping, the call fails fatally: it returns no
\* address, and no Block with a null base becomes reachable from either list.
C4_MapFailureIsFatal ==
  /\ \A i \in (ListOf(blocks_) \cup ListOf(large_)) \ {WildPtr} : blk[i].base # NULL
  /\ \A r \in rets : r.b # WildPtr => blk[r.b].base # NULL

\* The same four statements in the runs where every mapping succeeded and
\* every NewBlock call handed back the Block it built.
NoArenaFault == aflags.mapFailed = 0 /\ aflags.wildRet = 0
ArenaSoundWithoutFault ==
  NoArenaFault => /\ C1_RangesDisjointAndMapped
                  /\ C2_AlignedReturns
                  /\ C3_LargePathDedicatedBlock
                  /\ C4_MapFailureIsFatal
                  /\ ~aflags.assertFailed

(***************************************************************************)
(* PosixMmapFile: properties                                               *)
(***************************************************************************)
\* The threads inside the grow section of GrowViaTruncate (lines 170-198):
\* past the critical section that set trunc_in_progress_, before or in the
\* file-extend call, or before the table swap.
Range(k) == wlog[k].off .. (wlog[k].off + wlog[k].len - 1)

\* Write j touches the range of write k and did not return before k started.
TouchedLater(k) ==
  \E j \in 1..Len(wlog) : j # k /\ j \notin wlog[k].after /\ Range(j) \cap Range(k) # {}

\* The file holds the bytes of write k at every offset of its range.
ReadsBack(k) ==
  \A o \in Range(k) : o < flen /\ o \in DOMAIN content /\ content[o] = k

\* No byte of the file lies outside the range of the write it came from.
FrameKept ==
  \A o \in DOMAIN content : content[o] \in 1..Len(wlog) /\ o \in Range(content[o])

\* C5: after a WriteAt returned OK and was followed by a successful Sync and
\* a successful Close, with no later write into its range, the file holds
\* exactly its bytes at its offsets; no write stores a byte outside its range.
C5_RoundTrip ==
  /\ FrameKept
  /\ \A k \in 1..Len(wlog) :
       (/\ wlog[k].st = "ok"
        /\ k \in fhist.synced
        /\ fhist.closeSt = "ok"
        /\ ~TouchedLater(k)) => ReadsBack(k)

C5_Witness ==
  /\ fhist.closeSt = "ok"
  /\ \E k \in 1..Len(wlog) :
       /\ wlog[k].st = "ok" /\ k \in fhist.synced /\ ~TouchedLater(k)
       /\ wlog[k].off \div block_size_ # (wlog[k].off + wlog[k].len - 1) \div block_size_
       /\ ReadsBack(k)

PairwiseDisjoint ==
  \A j, k \in 1..Len(wlog) : j # k => Range(j) \cap Range(k) = {}

\* C6: WriteAt calls on pairwise disjoint ranges, run concurrently with no
\* failure of the operating system, all return OK whatever the interleaving,
\* each copies into the view installed for its block, and each range reads
\* back its bytes.
C6_DisjointWritesAllOk ==
  (PairwiseDisjoint /\ fhist.faults = 0) =>
     /\ ~fhist.aborted /\ ~fhist.assertFailed
     /\ \A k \in 1..Len(wlog) : wlog[k].st # "err"
     /\ \A t \in FileThreads :
          fpc[t] = "copy" =>
            /\ floc[t].block < segments_sz_
            /\ Seg(floc[t].block).base_ = floc[t].base
     /\ \A k \in WritesOk : fd_ => ReadsBack(k)

MaxEnd ==
  LET ends == {0} \cup {wlog[k].off + wlog[k].len : k \in 1..Len(wlog)}
  IN CHOOSE e \in ends : \A x \in ends : x <= e

\* C7: with no failure of the operating system, Close unmaps every non-null
\* entry of the table and leaves the file with the length of the largest
\* offset + length of the WriteAt calls made; before Close the logical end
\* offset never decreases.
C7_CloseTruncatesToEnd ==
  [][/\ fd_' => end_offset_' >= end_offset_
     /\ (fd_ /\ ~fd_' /\ fhist'.faults = 0) =>
          /\ \A i \in 1..Len(segments_) :
               segments_[i].base_ # NULL => ~views'[segments_[i].base_].live
          /\ end_offset_ = MaxEnd
          /\ flen' = MaxEnd]_vars

AllIdle == \A t \in FileThreads : fpc[t] = "idle"

BlockOf(k) == wlog[k].off \div block_size_

\* The WriteAt calls so far went to pairwise distinct blocks, and each found,
\* in the first critical section of GetSegment, the table as it was at the
\* start (length 0): all the blocks lay beyond the table at the same time.
Simultaneous ==
  /\ \A k \in 1..Len(wlog) : wlog[k].sz0 = 0
  /\ \A j, k \in 1..Len(wlog) : j # k => BlockOf(j) # BlockOf(k)

\* The blocks written all round to the same new table length.
SameLength ==
  \A j, k \in 1..Len(wlog) : (BlockOf(j) + 7) \div 8 = (BlockOf(k) + 7) \div 8

\* Every installed entry carries the view and the handle put there together.
TableWellFormed ==
  \A i \in 1..segments_sz_ :
    (segments_[i].base_ = NULL) = (segments_[i].handle = NULL)

\* C8 as stated: N threads that simultaneously write to N distinct blocks
\* beyond the table are served by exactly one file-extend call.
C8_ExactlyOneTruncate ==
  (AllIdle /\ Len(wlog) >= 2 /\ Simultaneous) => fhist.ntrunc = 1

\* C8 amended: such writers cause between one and N file-extend calls, exactly
\* one when all their blocks round to the same new table length; the table
\* they read under mtx_ is never partial.
C8_OneTruncatePerLength ==
  /\ TableWellFormed
  /\ (AllIdle /\ Len(wlog) >= 2 /\ Simultaneous) =>
       /\ fhist.ntrunc >= 1 /\ fhist.ntrunc <= Len(wlog)
       /\ SameLength => fhist.ntrunc = 1

C8_Witness ==
  /\ AllIdle /\ Len(wlog) = 2 /\ Simultaneous /\ SameLength
  /\ fhist.ntrunc = 1
  /\ \A k \in 1..Len(wlog) : wlog[k].st = "ok"

InGrow == {t \in FileThreads : fpc[t] \in {"chsize", "swap"}}

\* C9: growth is strictly serialized: at most one thread at a time is inside
\* the grow section, so two file-extend calls never run concurrently.
C9_GrowthSerialized == Cardinality(InGrow) <= 1

\* C10: the table length covers every block index whose growth succeeded: a
\* thread past GrowViaTruncate finds block < segments_sz_, and the assertion
\* of GetSegment line 265 never fails.
C10_TableCoversRequested ==
  /\ ~fhist.assertFailed
  /\ \A t \in FileThreads :
       fpc[t] \in {"create", "mapview", "install"} => floc[t].block < segments_sz_

\* C10, first half: before Close the table length never decreases.
C10_LengthNeverDecreases == [][fd_' => Len(segments_') >= Len(segments_)]_vars

\* C11: once a non-null segment is installed at an index of the table, that
\* index keeps the same base address, and the view stays mapped, in every
\* later state until Close.
C11_InstalledSegmentStable ==
  [][fd_' =>
       \A i \in 1..Len(segments_) :
         segments_[i].base_ # NULL =>
           /\ i <= Len(segments_')
           /\ segments_'[i].base_ = segments_[i].base_
           /\ views'[segments_[i].base_].live]_vars

\* C12: when the file-extend call of GrowViaTruncate fails, the WriteAt or
\* Append call returns an I/O error and the segment table, its array and its
\* length, stays exactly as it was before the growth attempt.
C12_FailedGrowthKeepsTable ==
  [][\A t \in FileThreads :
       (fpc[t] = "swap" /\ floc[t].error /\ fpc'[t] # "swap") =>
         /\ wlog'[floc[t].id].st = "err"
         /\ segments_' = segments_]_vars

\* Thread t is in the step in which its CreateFileMappingA or MapViewOfFile
\* call fails.
MappingFails(t) ==
  /\ fpc[t] \in {"create", "mapview"}
  /\ fhist'.faults > fhist.faults
  /\ fhist'.aborted \/ fpc'[t] = "idle"

\* C13: when creating the mapping or the view for a block fails during
\* WriteAt or Append, the call returns an I/O error, the process keeps
\* running, and the contents and table entries of the mapped blocks are
\* unchanged.
C13_MappingFailureReported ==
  [][\A t \in FileThreads :
       MappingFails(t) =>
         /\ ~fhist'.aborted
         /\ wlog'[floc[t].id].st = "err"
         /\ segments_' = segments_
         /\ content' = content]_vars

\* Thread t is in the step in which its Sync call returns.
SyncReturns(t) == fpc[t] = "sync1" /\ fpc'[t] = "idle"

\* C14: Sync flushes every non-null segment of the table, whatever the set
\* of mapped block indexes is, also a mapped block that comes after a null
\* index.
C14_SyncFlushesEveryMapped ==
  [][\A t \in FileThreads : SyncReturns(t) => floc[t].mapped0 \subseteq floc[t].fl]_vars

\* C15: the status Sync returns is OK exactly when every view flush and every
\* file-buffer flush it performed succeeded.
C15_SyncStatus ==
  [][\A t \in FileThreads :
       SyncReturns(t) => ((floc[t].st = "ok") <=> ~floc[t].stepFail)]_vars

\* The error of the first step that failed, in the order of Close: unmap,
\* truncate, file close.
FirstFailure(failed) ==
  IF "unmap" \in failed THEN "bad close 1"
  ELSE IF "trunc" \in failed THEN "bad close 2"
  ELSE IF "close" \in failed THEN "bad close 3"
  ELSE "ok"

\* C16: Close returns OK only if the unmaps, the truncate and the file close
\* all succeeded, and otherwise the error of the first of them that failed.
C16_CloseReportsFirstFailure ==
  fhist.closeSt # "none" => fhist.closeSt = FirstFailure(fhist.closeFailed)

\* C17: Close is idempotent: every Close after the first returns OK and
\* performs no unmap, no truncate and no file close, so each segment is
\* unmapped at most once, the file is truncated by Close at most once and the
\* descriptor is closed at most once.
C17_CloseIdempotent ==
  /\ fhist.closes >= 2 => fhist.reSt = "ok"
  /\ fhist.fdCloses <= 1
  /\ fhist.closeTruncs <= 1
  /\ ~fhist.doubleUnmap

C17_Witness ==
  /\ fhist.closes = 2 /\ fhist.reSt = "ok"
  /\ fhist.fdCloses = 1 /\ fhist.closeTruncs = 1
  /\ \E v \in 1..Len(views) : ~views[v].live

(***************************************************************************)
(* Scheduler: properties                                                   *)
(***************************************************************************)
IsPrefix(a, b) == Len(a) <= Len(b) /\ \A i \in 1..Len(a) : a[i] = b[i]

\* The items popped whose function has not been entered yet
Popped == {witem[w] : w \in {u \in Workers : wpc[u] = "call"}}

\* C18: tasks execute in enqueue order: the sequence of tasks started is a
\* prefix of the sequence in which Schedule appended them; no task is
\* reordered, dropped (every task appended is started, popped or still in
\* the queue, in this order) or run twice.
C18_FifoOrder ==
  /\ IsPrefix(started, enq)
  /\ \A i, j \in 1..Len(started) : i # j => started[i] # started[j]
  /\ Cardinality(Popped) <= 1
  /\ \E mid \in {<<>>} \cup {<<x>> : x \in Popped} : enq = started \o mid \o queue_

C18_Witness ==
  /\ Len(started) = MaxTasks
  /\ \A c \in SchedCallers : spc[c] = "idle"
  /\ shist.resched # {}

Executing == {w \in Workers : wpc[w] \in {"run", "tpush", "tnotify"}}

\* C19: at most one scheduled task executes at any time, and it runs with
\* the queue lock released: the background thread does not own mu_ while the
\* task runs, so a Schedule call of another thread can take it.
C19_OneTaskLockReleased ==
  /\ Cardinality(Executing) <= 1
  /\ \A w \in Workers : wpc[w] \in {"call", "run"} => mu_ # <<"bg", w>>

C19_Witness ==
  \E w \in Workers, c \in SchedCallers :
    wpc[w] = "run" /\ spc[c] = "push" /\ mu_ = <<"caller", c>>

\* C20: every task passed to Schedule is eventually executed, and the
\* background thread does not stay in wait() while the queue is non-empty.
C20_EveryTaskRuns ==
  /\ \A k \in 1..MaxTasks : (Len(enq) >= k) ~> (k \in done)
  /\ (queue_ # <<>>) ~> (Waiting = {})

\* A task appended while the background thread waited has been run after the
\* notification woke the thread.
C20_Witness ==
  /\ shist.woke
  /\ Len(enq) = MaxTasks
  /\ done = 1..MaxTasks

\* The background threads created so far
Created == {w \in Workers : wpc[w] # "none"}

\* C21: no background thread exists before the first Schedule call has
\* reached its thread test, and for any number of Schedule calls exactly one
\* background thread is ever created.
C21_OneWorkerLazily ==
  /\ Len(enq) = 0 => Created = {} /\ ~bgthread_
  /\ Len(enq) >= 1 => Cardinality(Created) = 1 /\ bgthread_

C21_Witness ==
  /\ Len(enq) = MaxTasks
  /\ Cardinality(Created) = 1
  /\ \A c \in SchedCallers : spc[c] = "idle"
  /\ shist.resched = {}

(***************************************************************************)
(* LockFile / RenameFile: properties                                       *)
(***************************************************************************)
\* C22: LockFile on a path whose lock another holder has fails, it does not
\* wait: no caller is inside fl_.lock() while the lock is held, no caller
\* that found the lock held is given it later, and a caller whose LockFile
\* returned OK with a non-NULL lock is the holder.
C22_HeldLockRefused ==
  /\ \A c \in Lockers : ~(lpc[c] = "lock" /\ lholder # 0)
  /\ \A c \in Lockers : c \in ehist.waited => lret[c] # "ok"
  /\ \A c \in Lockers : (lret[c] = "ok" /\ lptr[c] # NULL) => lholder = c
  /\ \A c \in Lockers : lret[c] = "err" => lptr[c] = NULL

\* The source has been moved to the target.
Moved ==
  /\ ehist.orig.src # 0
  /\ rfs.src = 0
  /\ rfs.tgt = ehist.orig.src

\* C23: RenameFile returns OK only if the source has been moved to the
\* target, and a non-OK status for every failure of the underlying move,
\* whatever the error code.
C23_RenameFailureReported ==
  rpc = "done" =>
    /\ rret = "ok" => Moved
    /\ ehist.moveFailed => rret = "err"

(***************************************************************************)
(* Arena: cursors, counters, lifetime of the Blocks                        *)
(***************************************************************************)
\* The Blocks of the Arena: those reachable from one of the two list heads
ArenaBlocks == ListOf(blocks_) \cup ListOf(large_)

CursorsInside(b) ==
  /\ b.base <= b.next_lower
  /\ b.next_lower <= b.next_upper
  /\ b.next_upper <= b.base + b.size

\* C24: in every reachable state, also in the middle of concurrent
\* allocations, every Block of the Arena has
\* base <= next_lower <= next_upper <= base + size, so the assertions
\* nl <= nu of AllocateFinalize never fail.
C24_CursorsOrdered == \A i \in ArenaBlocks : CursorsInside(blk[i])

ArenaQuiet == \A t \in ArenaThreads : apc[t] = "idle"

\* C25: with no allocation in flight, every Block of the normal list and of
\* the large list has rem = next_upper - next_lower.
C25_RemMatchesCursors ==
  ArenaQuiet => \A i \in ArenaBlocks : blk[i].rem = blk[i].next_upper - blk[i].next_lower

\* The two statements in the runs without a refused mapping and without an
\* indeterminate NewBlock result; the second for the normal list only.
CursorsSoundWithoutFault ==
  NoArenaFault =>
    /\ C24_CursorsOrdered
    /\ ArenaQuiet => \A i \in ListOf(blocks_) :
                       blk[i].rem = blk[i].next_upper - blk[i].next_lower

\* The cursor CAS of thread t succeeds in this step
FinalizeSwaps(t) == apc[t] = "fin_cas" /\ apc'[t] = "fin_ret"

\* AllocateFinalize of thread t returns in this step
FinalizeReturns(t) == apc[t] = "fin_ret" /\ apc'[t] = "idle"

OneCursorMoved(t) ==
  LET b == aloc[t].b
      n == aloc[t].bytes
  IN /\ \A i \in DOMAIN blk \ {b} : blk'[i] = blk[i]
     /\ blk'[b].rem = blk[b].rem
     /\ IF n % align_ = 0
          THEN /\ blk'[b].next_upper = blk[b].next_upper - n
               /\ blk'[b].next_lower = blk[b].next_lower
               /\ aloc'[t].expected = blk[b].next_upper
          ELSE /\ blk'[b].next_lower = blk[b].next_lower + n
               /\ blk'[b].next_upper = blk[b].next_upper
               /\ aloc'[t].expected = blk[b].next_lower

ReturnedCursor(t) ==
  LET n == aloc[t].bytes
      old == aloc[t].expected      \* the cursor just before the thread's CAS
  IN /\ blk' = blk
     /\ \E r \in rets' \ rets :
          /\ r.n = n /\ r.b = aloc[t].b
          /\ r.p = IF n % align_ = 0 THEN old - n ELSE old

\* C28: AllocateFinalize(b, n) moves exactly one cursor of b: for n a multiple
\* of the alignment it lowers next_upper by n, leaves next_lower alone and
\* returns the new next_upper; otherwise it raises next_lower by n, leaves
\* next_upper alone and returns the old next_lower.  No cursor of another
\* Block changes.
C28_FinalizeMovesOneCursor ==
  [][\A t \in ArenaThreads :
       /\ FinalizeSwaps(t) => OneCursorMoved(t)
       /\ FinalizeReturns(t) => ReturnedCursor(t)]_vars

\* Both branches have returned for calls on the same Block.
C28_Witness ==
  \E r1, r2 \in rets :
    /\ r1.k > 0 /\ r2.k > 0 /\ r1.b = r2.b
    /\ r1.n % align_ = 0 /\ r2.n % align_ # 0
    /\ blk[r1.b].next_lower < blk[r1.b].next_upper

\* The Blocks that own a mapping (NewBlock's MapViewOfFile gave a base)
OwnsMapping(i) == blk[i].base # NULL

\* Thread t holds Block i between its NewBlock call and its list CAS
InHand(t, i) ==
  /\ aloc[t].nb = i
  /\ apc[t] \in {"link", "cas_head", "large_load", "large_cas"}

Served(i) == \E r \in rets : r.b = i

\* C27: every Block that was mapped is unmapped exactly once.  A Block that
\* lost the head CAS is released at once by its creator, has served no
\* allocation and was never on a list; a Block on a list stays there,
\* mapped, until the destructor, which releases it exactly once.
C27_UnmappedExactlyOnce ==
  \A i \in DOMAIN blk : OwnsMapping(i) =>
    /\ blk[i].unmaps <= 1
    /\ IF aflags.destroyed THEN blk[i].unmaps = 1
       ELSE IF i \in ArenaBlocks \/ \E t \in ArenaThreads : InHand(t, i)
              THEN blk[i].unmaps = 0 /\ blk[i].mapped
              ELSE blk[i].unmaps = 1 /\ ~Served(i)

BlocksReleasedWithoutFault == NoArenaFault => C27_UnmappedExactlyOnce

\* Every instruction of a call in progress can be executed whatever the other
\* threads are doing: nothing in the Arena waits for a lock or a condition.
NeverBlocked == \A t \in ArenaThreads : apc[t] # "idle" => ENABLED ArenaStep(t)

EveryCallReturns == \A t \in ArenaThreads : (apc[t] # "idle") ~> (apc[t] = "idle")

\* C26: the Arena is lock-free: no thread waits on a lock or a condition, and
\* with finitely many threads making finitely many calls, under fair
\* scheduling every call eventually returns.
C26_EveryCallReturns == []NeverBlocked /\ EveryCallReturns

\* The same for the runs in which every NewBlock call yields its Block.
ReturnsWithoutFault ==
  []NeverBlocked /\ \A t \in ArenaThreads :
                      (apc[t] # "idle") ~> (apc[t] = "idle" \/ aflags.wildRet > 0)

(***************************************************************************)
(* PosixMmapFile: concurrent GetSegment calls                              *)
(***************************************************************************)
\* GetSegment of thread t has returned a non-null base to WriteAt
Returned(t) == fpc[t] = "copy"

\* Thread t holds view v between its MapViewOfFile and the end of GetSegment
Holds(t, v) == floc[t].ptr = v /\ fpc[t] \in {"install", "unmap"}

\* Thread t stores its view in the table in this step (lines 270-273)
Stores(t) == fpc[t] = "install" /\ fpc'[t] = "copy"

\* Thread t runs UnmapSegment on its duplicate view in this step (lines 277-281)
Discards(t) == fpc[t] = "unmap" /\ fpc'[t] # "unmap"

\* No view of the block of thread t's view is mapped besides that view and the
\* views other threads hold in GetSegment calls still in progress
OnlyMapping(t) ==
  \A v \in 1..Len(views) :
    (views[v].live /\ views[v].off = views[floc[t].ptr].off)
      => v = floc[t].ptr \/ \E u \in FileThreads : Holds(u, v)

ReturnsInstalled(t) ==
  /\ floc[t].block < segments_sz_
  /\ floc[t].base = Seg(floc[t].block).base_

\* C29: for every block at most one mapping is ever installed, every
\* GetSegment call for the block returns the base of that mapping, and a
\* thread that finds the block installed discards its own view and returns
\* the installed base.
C29_OneMappingPerBlock ==
  /\ [][\A t \in FileThreads : Stores(t) => OnlyMapping(t)]_vars
  /\ [](\A t \in FileThreads : (Running /\ Returned(t)) => ReturnsInstalled(t))
  /\ [][\A t \in FileThreads :
         Discards(t) => /\ ~views'[floc[t].ptr].live
                        /\ fpc'[t] = "copy"
                        /\ floc'[t].base = Seg(floc[t].block).base_]_vars

\* The member _base_handle still holds the handle that thread t created in
\* its current GetSegment call
OwnHandle(t) == floc[t].mine

\* C30: under every interleaving of GetSegment calls the handle stored in a
\* table entry is the one created together with the entry's view, and the
\* discarding of a duplicate closes the discarding thread's own handle only.
C30_HandlesBelongToTheirViews ==
  [][\A t \in FileThreads :
       /\ Stores(t) => OwnHandle(t)
       /\ Discards(t) => OwnHandle(t)]_vars

\* The same when no OS call fails
OneMappingWithoutFault ==
  /\ [][\A t \in FileThreads : (fhist.faults = 0 /\ Stores(t)) => OnlyMapping(t)]_vars
  /\ [](\A t \in FileThreads :
          (fhist.faults = 0 /\ Running /\ Returned(t)) => ReturnsInstalled(t))
  /\ [][\A t \in FileThreads :
         (fhist'.faults = 0 /\ Discards(t)) =>
            /\ ~views'[floc[t].ptr].live
            /\ fpc'[t] = "copy"
            /\ floc'[t].base = Seg(floc[t].block).base_]_vars

(***************************************************************************)
(* PosixMmapFile: the wait on the growth condition variable                *)
(***************************************************************************)
\* Thread t is inside cnd_.Wait() (line 166), signalled or not
InWait(t) == fpc[t] = "gwait"

\* Thread t is between the start of a growth and its table swap
Growing(t) == fpc[t] \in {"chsize", "swap"}

\* The GetSegment call of thread t is over: it gave a base to WriteAt, or
\* WriteAt has returned
GetSegmentDone(t) == fpc[t] \in {"copy", "idle"}

WaitersCounted == trunc_waiters_ = Cardinality({t \in FileThreads : InWait(t)})

NoLostWakeup ==
  \A t \in FileThreads :
    (InWait(t) /\ t \notin woken) => \E u \in FileThreads : Growing(u)

\* C31: under fair scheduling, with every file-extend call returning, every
\* thread that waits on cnd_ in GrowViaTruncate is woken and completes its
\* GetSegment call; no waiter stays unsignalled when no growth is in
\* progress, and trunc_waiters_ counts the waiting threads (0 when none).
C31_WaitersComplete ==
  /\ []WaitersCounted
  /\ []NoLostWakeup
  /\ \A t \in 1..NWaitThreads : InWait(t) ~> GetSegmentDone(t)

\* The same as long as no thread has called abort()
WaitersCompleteUnlessAborted ==
  /\ []WaitersCounted
  /\ []NoLostWakeup
  /\ \A t \in 1..NWaitThreads : InWait(t) ~> (GetSegmentDone(t) \/ fhist.aborted)

(***************************************************************************)
(* PosixMmapFile: reads of the segment table                               *)
(***************************************************************************)
\* Thread t reads an entry of the table array outside mtx_ in this step
\* (Sync line 464)
ReadsUnlocked(t) == fpc[t] = "sync3" /\ fpc'[t] # "sync3"

\* The array that thread t's table pointer designates is still the table
CurrentArray(t) == floc[t].tab = fhist.arrays

\* C32: no thread reads the segment table array without holding mtx_, so no
\* thread reads a table array that a concurrent GrowViaTruncate has replaced
\* and freed, in particular not Sync running next to a growing WriteAt.
C32_TableReadUnderMutex ==
  /\ [][\A t \in FileThreads : ~ReadsUnlocked(t)]_vars
  /\ [][\A t \in FileThreads : ReadsUnlocked(t) => CurrentArray(t)]_vars

\* The second part alone: the unlocked read never meets a freed array
NoFreedTableRead ==
  [][\A t \in FileThreads : ReadsUnlocked(t) => CurrentArray(t)]_vars


(***************************************************************************)
(* PosixMmapFile: Append at the logical end                                *)
(***************************************************************************)
\* The Append calls whose WriteAt (line 332) has been entered
AppendCalls == {k \in 1..Len(wlog) : wlog[k].app}

\* No WriteAt was called other than by Append, and Close (which resets
\* end_offset_, line 345) has not run
OnlyAppends == fhist.closes = 0 /\ \A k \in 1..Len(wlog) : wlog[k].app

\* A thread is inside Append: between lines 329 and 332, or in its WriteAt
InAppend(t) ==
  \/ fpc[t] = "append"
  \/ floc[t].id # 0 /\ floc[t].id <= Len(wlog) /\ wlog[floc[t].id].st = "run"

\* The byte ranges of calls j and k share a byte
RangesOverlap(j, k) ==
  /\ wlog[j].off < wlog[k].off + wlog[k].len
  /\ wlog[k].off < wlog[j].off + wlog[j].len

RECURSIVE AppendedLen(_)
\* The sum of the lengths of the first n logged calls
AppendedLen(n) == IF n = 0 THEN 0 ELSE wlog[n].len + AppendedLen(n - 1)

\* C33: with no WriteAt calls, the byte ranges of distinct Append calls
\* (concurrent ones included) are pairwise disjoint, and once every Append
\* has returned the logical end offset is the sum of the appended lengths.
C33_AppendsDisjoint ==
  OnlyAppends =>
    /\ \A j, k \in AppendCalls : j # k => ~RangesOverlap(j, k)
    /\ (\A t \in FileThreads : ~InAppend(t)) => end_offset_ = AppendedLen(Len(wlog))

\* The same holds of a file that a single thread appends to: no Append then
\* starts while another is between reading end_offset_ (line 330) and raising
\* it in WriteAt (lines 305-310).
AppendsDisjointWhenSerial ==
  (OnlyAppends /\ fhist.started \subseteq {1}) =>
    /\ \A j, k \in AppendCalls : j # k => ~RangesOverlap(j, k)
    /\ (\A t \in FileThreads : ~InAppend(t)) => end_offset_ = AppendedLen(Len(wlog))

====
